---- MODULE Spec2Model ----
(***************************************************************************)
(* Client request pipeline of hyper at the revision that introduces the    *)
(* HTTP/2 adapter and the HttpMessage abstraction.                         *)
(*                                                                         *)
(*   Spec     the HTTP/1.x request  Request<Fresh> -> Request<Streaming>   *)
(*            -> Response  (src/src/client/request.rs)                     *)
(*   SpecMsg  the HttpMessage downcast helpers (src/src/message.rs)        *)
(*   SpecH2   the HTTP/2 adapter (src/src/http2.rs)                        *)
(*                                                                         *)
(* Bytes are one-character strings, byte strings are sequences of them.    *)
(* Option<T> is a sequence of length 0 (None) or 1 (Some).                 *)
(***************************************************************************)
EXTENDS Integers, Sequences, FiniteSets, TLC

\* ----------------------------------------------------------------- bounds
\* the largest number of write() calls made on one Streaming request
MaxWrites == 3

\* ------------------------------------------------------------ byte helpers
RECURSIVE Concat(_)
\* the concatenation of a sequence of byte strings
Concat(ss) == IF ss = <<>> THEN <<>> ELSE Head(ss) \o Concat(Tail(ss))

\* TRUE iff the byte string pat occurs in the byte string s (str::contains)
Contains(s, pat) ==
    \E i \in 0..(Len(s) - Len(pat)) : SubSeq(s, i + 1, i + Len(pat)) = pat

\* TRUE iff the byte string s ends with suf
EndsWith(s, suf) ==
    /\ Len(s) >= Len(suf)
    /\ SubSeq(s, Len(s) - Len(suf) + 1, Len(s)) = suf

HexDigit == <<"0","1","2","3","4","5","6","7","8","9","A","B","C","D","E","F">>

RECURSIVE FmtNat(_, _)
\* the digits of n in the given base, most significant first ({} and {:X})
FmtNat(n, base) ==
    IF n < base THEN <<HexDigit[n + 1]>>
    ELSE FmtNat(n \div base, base) \o <<HexDigit[(n % base) + 1]>>

FmtDec(n) == FmtNat(n, 10)
FmtHex(n) == FmtNat(n, 16)

LINE_ENDING == <<"\r", "\n">>

\* ------------------------------------------------------------------ method
Methods == {"Get", "Head", "Post"}

\* Display for Method
FmtMethod(m) ==
    CASE m = "Get"  -> <<"G","E","T">>
      [] m = "Head" -> <<"H","E","A","D">>
      [] m = "Post" -> <<"P","O","S","T">>

\* Display for HttpVersion::Http11
FmtVersion(v) ==
    CASE v = "Http11" -> <<"H","T","T","P","/","1",".","1">>

\* --------------------------------------------------------------------- url
\* http://example.dom/ , http://example.dom/submit?q=1 , http://example.dom/?
Urls ==
    { [host |-> <<"e","x","a","m","p","l","e",".","d","o","m">>, port |-> 80,
       path |-> <<"/">>, query |-> <<>>],
      [host |-> <<"e","x","a","m","p","l","e",".","d","o","m">>, port |-> 80,
       path |-> <<"/","s","u","b","m","i","t">>,
       query |-> << <<"q","=","1">> >>],
      [host |-> <<"e","x","a","m","p","l","e",".","d","o","m">>, port |-> 80,
       path |-> <<"/">>, query |-> << <<>> >>] }

\* a request target that leaves out the '?' of an empty query
RequestUri_SkipsEmptyQuery(u) ==
    IF u.query # <<>> /\ u.query[1] # <<>>
    THEN u.path \o <<"?">> \o u.query[1]
    ELSE u.path

\* the request target: serialize_path(), then '?' and the query when Some
RequestUri(u) ==
    IF u.query # <<>> THEN u.path \o <<"?">> \o u.query[1] ELSE u.path

\* ----------------------------------------------------------------- headers
\* The header collection: the typed fields that the request code reads and
\* writes, and the order in which the fields were first inserted.
HeaderNames == {"Host", "ContentLength", "TransferEncoding"}

Encodings == {"chunked", "gzip"}

FmtEncoding(e) ==
    CASE e = "chunked" -> <<"c","h","u","n","k","e","d">>
      [] e = "gzip"    -> <<"g","z","i","p">>

HeadersNew == [order |-> <<>>, host |-> <<>>, cl |-> <<>>, te |-> <<>>]

HeadersHas(h, name) ==
    CASE name = "Host"             -> h.host # <<>>
      [] name = "ContentLength"    -> h.cl # <<>>
      [] name = "TransferEncoding" -> h.te # <<>>

\* Headers::set: replaces the value of a field, or inserts the field last
HeadersSet(h, name, v) ==
    LET o == IF HeadersHas(h, name) THEN h.order ELSE Append(h.order, name)
    IN CASE name = "Host"             -> [h EXCEPT !.order = o, !.host = <<v>>]
         [] name = "ContentLength"    -> [h EXCEPT !.order = o, !.cl = <<v>>]
         [] name = "TransferEncoding" -> [h EXCEPT !.order = o, !.te = <<v>>]

\* Headers::remove
HeadersRemove(h, name) ==
    LET o == SelectSeq(h.order, LAMBDA n : n # name)
    IN CASE name = "Host"             -> [h EXCEPT !.order = o, !.host = <<>>]
         [] name = "ContentLength"    -> [h EXCEPT !.order = o, !.cl = <<>>]
         [] name = "TransferEncoding" -> [h EXCEPT !.order = o, !.te = <<>>]

FieldName(name) ==
    CASE name = "Host" -> <<"H","o","s","t">>
      [] name = "ContentLength" ->
            <<"C","o","n","t","e","n","t","-","L","e","n","g","t","h">>
      [] name = "TransferEncoding" ->
            <<"T","r","a","n","s","f","e","r","-",
              "E","n","c","o","d","i","n","g">>

RECURSIVE FmtCommaDelimited(_)
\* a list of encodings, joined by ", "
FmtCommaDelimited(es) ==
    IF es = <<>> THEN <<>>
    ELSE IF Len(es) = 1 THEN FmtEncoding(es[1])
    ELSE FmtEncoding(es[1]) \o <<",", " ">> \o FmtCommaDelimited(Tail(es))

FieldValue(h, name) ==
    CASE name = "Host"             -> h.host[1].hostname
      [] name = "ContentLength"    -> FmtDec(h.cl[1])
      [] name = "TransferEncoding" -> FmtCommaDelimited(h.te[1])

RECURSIVE FmtFields(_, _)
FmtFields(h, names) ==
    IF names = <<>> THEN <<>>
    ELSE FieldName(Head(names)) \o <<":", " ">> \o FieldValue(h, Head(names))
            \o LINE_ENDING \o FmtFields(h, Tail(names))

\* Display for Headers: every field as "Name: value CRLF", in insertion order
FmtHeaders(h) == FmtFields(h, h.order)

\* ------------------------------------------------------------- body writer
\* HttpWriter<W>: the framing discipline that wraps the transport
ThroughWriter == [kind |-> "ThroughWriter", len |-> 0]
ChunkedWriter == [kind |-> "ChunkedWriter", len |-> 0]
EmptyWriter   == [kind |-> "EmptyWriter", len |-> 0]

SizedWriter(n) == [kind |-> "SizedWriter", len |-> n]

\* HttpWriter::write: the bytes that reach the transport, and the result
HttpWriter_write(w, msg) ==
    CASE w.kind = "ThroughWriter" -> [ok |-> TRUE, bytes |-> msg]
      [] w.kind = "SizedWriter"   -> [ok |-> TRUE, bytes |-> msg]
      [] w.kind = "ChunkedWriter" ->
            [ok |-> TRUE,
             bytes |-> FmtHex(Len(msg)) \o LINE_ENDING \o msg \o LINE_ENDING]
      [] w.kind = "EmptyWriter"   -> [ok |-> FALSE, bytes |-> <<>>]

\* HttpWriter::end: the bytes that finalization adds
HttpWriter_end(w) ==
    IF w.kind = "ChunkedWriter"
    THEN <<"0">> \o LINE_ENDING \o LINE_ENDING
    ELSE <<>>

\* -------------------------------------------------- the HTTP/1.x request
VARIABLES
    phase,      \* "Fresh", "Streaming", "Sent" (consumed by send()),
                \* "Failed" (consumed by a start() that returned Err), "Idle"
    method,     \* Request.method
    url,        \* Request.url
    version,    \* Request.version
    headers,    \* Request.headers
    body,       \* Request.body, the HttpWriter
    transport,  \* the bytes written through body, in order
    flushed,    \* how many of them the BufWriter has passed on to the stream
    written,    \* the payloads of the write() calls made so far, in call order
    last,       \* the last operation called and whether it returned Ok
    calls,      \* how many times start() and send() have been called
    ioerr,      \* TRUE once the transport has failed a write of the head
    \* ---- the boxed HttpMessage (message.rs)
    mbox,       \* Option<Box<HttpMessage>>: the concrete type and its data
    mres,       \* the last helper called, its type argument, the box it was
                \* called on and what it returned
    \* ---- the HTTP/2 adapter (http2.rs)
    h2phase,    \* "NoClient", "Client", "Fresh", "Streaming", "Response",
                \* "Panicked", "Idle"
    h2client,   \* Option<Http2Client>: the variant, "Http" or "Https"
    h2req,      \* the fields of the Http2Request
    h2session,  \* the SimpleClient: the request calls made on it, the stream
                \* ids it returned and the responses it returned, in order
    h2resp,     \* Option<Http2Response>: stream_id, status, headers, body
    h2last      \* the last operation, its scheme argument (for new), how it
                \* ended ("Ok", "Err", "Panic") and whether the session
                \* returned an error to it

\* the payloads a caller writes: "", "abc", "de" and a 26-byte block
Payloads ==
    { <<>>, <<"a","b","c">>, <<"d","e">>,
      <<"a","b","c","d","e","f","g","h","i","j","k","l","m",
        "n","o","p","q","r","s","t","u","v","w","x","y","z">> }

\* the values a caller gives Content-Length
ContentLengths == {3, 5}

\* the lists a caller gives Transfer-Encoding
EncodingLists == { <<"gzip">>, <<"chunked">> }

HttpVars ==
    <<phase, method, url, version, headers, body, transport, flushed,
      written, last, calls, ioerr>>

MsgVars == <<mbox, mres>>

H2Vars == <<h2phase, h2client, h2req, h2session, h2resp, h2last>>

vars == <<HttpVars, MsgVars, H2Vars>>

MsgIdle ==
    /\ mbox = <<>>
    /\ mres = [op |-> "none", T |-> "none", arg |-> <<>>, ok |-> FALSE,
               val |-> <<>>, err |-> <<>>]

H2Idle ==
    /\ h2phase = "Idle"
    /\ h2client = <<>>
    /\ h2req = <<>>
    /\ h2session = [calls |-> <<>>, ids |-> <<>>, responses |-> <<>>]
    /\ h2resp = <<>>
    /\ h2last = [op |-> "none", arg |-> "", outcome |-> "Ok",
                 sessionErr |-> FALSE]

HttpIdle ==
    /\ phase = "Idle"
    /\ method = "Get"
    /\ url = CHOOSE u \in Urls : u.query = <<>>
    /\ version = "Http11"
    /\ headers = HeadersNew
    /\ body = ThroughWriter
    /\ transport = <<>>
    /\ flushed = 0
    /\ written = <<>>
    /\ last = [op |-> "none", ok |-> TRUE]
    /\ calls = [start |-> 0, send |-> 0]
    /\ ioerr = FALSE

\* a constructor that sets no Host header
Request_with_connector_NoHost ==
    /\ phase = "Fresh"
    /\ method \in Methods
    /\ url \in Urls
    /\ version = "Http11"
    /\ headers = HeadersNew
    /\ body = ThroughWriter
    /\ transport = <<>>
    /\ flushed = 0
    /\ written = <<>>
    /\ last = [op |-> "with_connector", ok |-> TRUE]
    /\ calls = [start |-> 0, send |-> 0]
    /\ ioerr = FALSE

\* Request::with_connector returned Ok: a Fresh request with a Host header
\* and the Through writer around the connected stream
Request_with_connector ==
    /\ phase = "Fresh"
    /\ method \in Methods
    /\ url \in Urls
    /\ version = "Http11"
    /\ headers = HeadersSet(HeadersNew, "Host",
                            [hostname |-> url.host, port |-> <<url.port>>])
    /\ body = ThroughWriter
    /\ transport = <<>>
    /\ flushed = 0
    /\ written = <<>>
    /\ last = [op |-> "with_connector", ok |-> TRUE]
    /\ calls = [start |-> 0, send |-> 0]
    /\ ioerr = FALSE

\* a typestate that also offers the Fresh methods on a Streaming request
IsFresh_OrStreaming == phase \in {"Fresh", "Streaming"}

\* impl Request<Fresh>: the methods a value of that type offers
IsFresh == phase = "Fresh"

\* impl Request<Streaming>, impl Write for Request<Streaming>
IsStreaming == phase = "Streaming"

\* headers_mut(): the caller sets or removes Content-Length or
\* Transfer-Encoding through the mutable reference
Request_headers_mut ==
    /\ IsFresh
    /\ \/ \E n \in ContentLengths :
            headers' = HeadersSet(headers, "ContentLength", n)
       \/ \E es \in EncodingLists :
            headers' = HeadersSet(headers, "TransferEncoding", es)
       \/ \E name \in {"ContentLength", "TransferEncoding"} :
            /\ HeadersHas(headers, name)
            /\ headers' = HeadersRemove(headers, name)
    /\ last' = [op |-> "headers_mut", ok |-> TRUE]
    /\ UNCHANGED <<phase, method, url, version, body, transport, flushed,
                   written, calls, ioerr>>
    /\ UNCHANGED <<MsgVars, H2Vars>>

\* start(): the request line "{} {} {}{}"
RequestLine(m, u, v) ==
    FmtMethod(m) \o <<" ">> \o RequestUri(u) \o <<" ">> \o FmtVersion(v)
        \o LINE_ENDING

\* start(): is the method one that carries no body
NoBody(m) == m \in {"Get", "Head"}

\* a start() that never clears the flag chunked
StartChunked_Always(h) == TRUE

\* start(): the flag chunked, false exactly when Content-Length is present
StartChunked(h) == h.cl = <<>>

\* a start() that negotiates Transfer-Encoding for GET and HEAD as well
StartHeaders_NegotiatesAlways(m, h) ==
    IF StartChunked(h)
    THEN IF h.te # <<>>
         THEN [h EXCEPT !.te = << Append(h.te[1], "chunked") >>]
         ELSE HeadersSet(h, "TransferEncoding", <<"chunked">>)
    ELSE h

\* a start() that writes the header block without touching Transfer-Encoding
StartHeaders_Untouched(m, h) == h

\* a start() that checks whether chunked is already among the encodings
StartHeaders_SkipsDuplicate(m, h) ==
    IF NoBody(m) THEN h
    ELSE IF StartChunked(h)
         THEN IF h.te # <<>>
              THEN IF \E i \in 1..Len(h.te[1]) : h.te[1][i] = "chunked"
                   THEN h
                   ELSE [h EXCEPT !.te = << Append(h.te[1], "chunked") >>]
              ELSE HeadersSet(h, "TransferEncoding", <<"chunked">>)
         ELSE h

\* a start() that drops the body headers of a GET or HEAD request
StartHeaders_StripsLength(m, h) ==
    IF NoBody(m)
    THEN HeadersRemove(HeadersRemove(h, "ContentLength"), "TransferEncoding")
    ELSE IF StartChunked(h)
         THEN IF h.te # <<>>
              THEN [h EXCEPT !.te = << Append(h.te[1], "chunked") >>]
              ELSE HeadersSet(h, "TransferEncoding", <<"chunked">>)
         ELSE h

\* start(): the headers as they are when the header block is written
StartHeaders(m, h) ==
    IF NoBody(m) THEN h
    ELSE IF StartChunked(h)
         THEN IF h.te # <<>>
              THEN [h EXCEPT !.te = << Append(h.te[1], "chunked") >>]
              ELSE HeadersSet(h, "TransferEncoding", <<"chunked">>)
         ELSE h

\* a start() that leaves the Through writer in place for GET and HEAD
StartWriter_KeepsThrough(m, h) ==
    IF NoBody(m) THEN ThroughWriter
    ELSE IF StartChunked(h) THEN ChunkedWriter
    ELSE SizedWriter(h.cl[1])

\* a start() that looks at Content-Length before it looks at the method
StartWriter_LengthFirst(m, h) ==
    IF ~StartChunked(h) THEN SizedWriter(h.cl[1])
    ELSE IF NoBody(m) THEN EmptyWriter
    ELSE ChunkedWriter

\* start(): the writer that replaces the Through writer
StartWriter(m, h) ==
    IF NoBody(m) THEN EmptyWriter
    ELSE IF StartChunked(h) THEN ChunkedWriter
    ELSE SizedWriter(h.cl[1])

\* start(): the header block "{}{}"
HeaderBlock(h) == FmtHeaders(h) \o LINE_ENDING

\* a start() that ignores the result of its writes
TryReturns_Never(failed) == FALSE

\* try!(write!(..)): TRUE when start() returns at this write with its error
TryReturns(failed) == failed

\* start(): each of the two writes of the head succeeds, or fails after any
\* strict prefix of its bytes; try! returns the first error and drops the
\* request, otherwise the Through writer is swapped for the chosen writer
Request_start ==
    /\ IsFresh
    /\ calls' = [calls EXCEPT !.start = @ + 1]
    /\ LET line  == RequestLine(method, url, version)
           h     == StartHeaders(method, headers)
           block == HeaderBlock(h)
       IN \E f1 \in BOOLEAN, f2 \in BOOLEAN :
          \E cut1 \in 0..(Len(line) - 1), cut2 \in 0..(Len(block) - 1) :
            LET w1 == IF f1 THEN SubSeq(line, 1, cut1) ELSE line
                w2 == IF f2 THEN SubSeq(block, 1, cut2) ELSE block
            IN /\ f1 => (~f2 /\ cut2 = 0)
               /\ ~f1 => cut1 = 0
               /\ ~f2 => cut2 = 0
               /\ IF TryReturns(f1)
                  THEN /\ transport' = transport \o w1
                       /\ headers' = headers
                       /\ body' = body
                       /\ phase' = "Failed"
                       /\ last' = [op |-> "start", ok |-> FALSE]
                       /\ ioerr' = f1
                  ELSE IF TryReturns(f2)
                  THEN /\ transport' = transport \o w1 \o w2
                       /\ headers' = h
                       /\ body' = body
                       /\ phase' = "Failed"
                       /\ last' = [op |-> "start", ok |-> FALSE]
                       /\ ioerr' = (f1 \/ f2)
                  ELSE /\ transport' = transport \o w1 \o w2
                       /\ headers' = h
                       /\ body' = StartWriter(method, headers)
                       /\ phase' = "Streaming"
                       /\ last' = [op |-> "start", ok |-> TRUE]
                       /\ ioerr' = (f1 \/ f2)
    /\ UNCHANGED <<method, url, version, flushed, written>>
    /\ UNCHANGED <<MsgVars, H2Vars>>

\* a write() whose bytes land in front of what was written before
Request_write_Prepends ==
    /\ IsStreaming
    /\ Len(written) < MaxWrites
    /\ \E msg \in Payloads :
          LET r == HttpWriter_write(body, msg)
          IN /\ transport' = r.bytes \o transport
             /\ written' = Append(written, msg)
             /\ last' = [op |-> "write", ok |-> r.ok]
    /\ UNCHANGED <<phase, method, url, version, headers, body, flushed,
                   calls, ioerr>>
    /\ UNCHANGED <<MsgVars, H2Vars>>

\* write(msg): forwarded to the body writer
Request_write ==
    /\ IsStreaming
    /\ Len(written) < MaxWrites
    /\ \E msg \in Payloads :
          LET r == HttpWriter_write(body, msg)
          IN /\ transport' = transport \o r.bytes
             /\ written' = Append(written, msg)
             /\ last' = [op |-> "write", ok |-> r.ok]
    /\ UNCHANGED <<phase, method, url, version, headers, body, flushed,
                   calls, ioerr>>
    /\ UNCHANGED <<MsgVars, H2Vars>>

\* flush(): forwarded to the body writer, which flushes the BufWriter
Request_flush ==
    /\ IsStreaming
    /\ flushed < Len(transport)
    /\ flushed' = Len(transport)
    /\ last' = [op |-> "flush", ok |-> TRUE]
    /\ UNCHANGED <<phase, method, url, version, headers, body, transport,
                   written, calls, ioerr>>
    /\ UNCHANGED <<MsgVars, H2Vars>>

\* a send() that takes the stream without calling body.end()
Request_send_NoEnd ==
    /\ IsStreaming
    /\ transport' = transport
    /\ flushed' = Len(transport')
    /\ phase' = "Sent"
    /\ calls' = [calls EXCEPT !.send = @ + 1]
    /\ \E ok \in BOOLEAN : last' = [op |-> "send", ok |-> ok]
    /\ UNCHANGED <<method, url, version, headers, body, written, ioerr>>
    /\ UNCHANGED <<MsgVars, H2Vars>>

\* a send() that writes the last chunk whatever the writer is
Request_send_AlwaysTerminates ==
    /\ IsStreaming
    /\ transport' = transport \o <<"0">> \o LINE_ENDING \o LINE_ENDING
    /\ flushed' = Len(transport')
    /\ phase' = "Sent"
    /\ calls' = [calls EXCEPT !.send = @ + 1]
    /\ \E ok \in BOOLEAN : last' = [op |-> "send", ok |-> ok]
    /\ UNCHANGED <<method, url, version, headers, body, written, ioerr>>
    /\ UNCHANGED <<MsgVars, H2Vars>>

\* send(): body.end() finalizes the framing and flushes; Response::new
\* then reads the response head, which succeeds or fails
Request_send ==
    /\ IsStreaming
    /\ transport' = transport \o HttpWriter_end(body)
    /\ flushed' = Len(transport')
    /\ phase' = "Sent"
    /\ calls' = [calls EXCEPT !.send = @ + 1]
    /\ \E ok \in BOOLEAN : last' = [op |-> "send", ok |-> ok]
    /\ UNCHANGED <<method, url, version, headers, body, written, ioerr>>
    /\ UNCHANGED <<MsgVars, H2Vars>>

Init == Request_with_connector /\ MsgIdle /\ H2Idle

Next ==
    \/ Request_headers_mut
    \/ Request_start
    \/ Request_write
    \/ Request_flush
    \/ Request_send

Spec == Init /\ [][Next]_vars

\* ------------------------------------------------- the boxed HttpMessage
\* the concrete types that implement HttpMessage
MessageTypes == {"Http11Message", "Http2Message", "MockMessage"}

\* the values of the concrete object behind the box
MessageData == 0..2

MsgBoxes == [type : MessageTypes, data : MessageData]

\* Typeable::get_type on the trait object: the TypeId of the concrete type
get_type(b) == b.type

\* TypeId::of::<T>()
TypeId_of(T) == T

\* is::<T>() as a downcast that trusts the caller
HttpMessage_is_Unchecked(b, T) == TRUE

\* is::<T>()
HttpMessage_is(b, T) == get_type(b) = TypeId_of(T)

\* downcast_*_unchecked::<T>(): the data pointer reinterpreted as a T; reading
\* an object of another type through it is undefined, any value may come out
downcast_unchecked(b, T) ==
    IF get_type(b) = TypeId_of(T) THEN {b.data} ELSE MessageData \cup {-1}

MsgResult(op, T, ok, val, err) ==
    [op |-> op, T |-> T, arg |-> mbox, ok |-> ok, val |-> val, err |-> err]

\* box.is::<T>()
HttpMessage_is_call ==
    /\ mbox # <<>>
    /\ \E T \in MessageTypes :
          mres' = MsgResult("is", T, HttpMessage_is(mbox[1], T), <<>>, <<>>)
    /\ mbox' = mbox
    /\ UNCHANGED <<HttpVars, H2Vars>>

\* box.downcast_ref::<T>(): Some(&T) or None
HttpMessage_downcast_ref ==
    /\ mbox # <<>>
    /\ \E T \in MessageTypes :
          IF HttpMessage_is(mbox[1], T)
          THEN \E v \in downcast_unchecked(mbox[1], T) :
                  mres' = MsgResult("downcast_ref", T, TRUE, <<v>>, <<>>)
          ELSE mres' = MsgResult("downcast_ref", T, FALSE, <<>>, <<>>)
    /\ mbox' = mbox
    /\ UNCHANGED <<HttpVars, H2Vars>>

\* box.downcast_mut::<T>(): Some(&mut T), through which the caller may
\* store a new value, or None
HttpMessage_downcast_mut ==
    /\ mbox # <<>>
    /\ \E T \in MessageTypes :
          IF HttpMessage_is(mbox[1], T)
          THEN \E v \in downcast_unchecked(mbox[1], T), d \in MessageData :
                  /\ mres' = MsgResult("downcast_mut", T, TRUE, <<v>>, <<>>)
                  /\ mbox' = << [mbox[1] EXCEPT !.data = d] >>
          ELSE /\ mres' = MsgResult("downcast_mut", T, FALSE, <<>>, <<>>)
               /\ mbox' = mbox
    /\ UNCHANGED <<HttpVars, H2Vars>>

\* box.downcast::<T>(): Ok(Box<T>), which consumes the trait object, or
\* Err(self), which hands it back
HttpMessage_downcast ==
    /\ mbox # <<>>
    /\ \E T \in MessageTypes :
          IF HttpMessage_is(mbox[1], T)
          THEN \E v \in downcast_unchecked(mbox[1], T) :
                  /\ mres' = MsgResult("downcast", T, TRUE, <<v>>, <<>>)
                  /\ mbox' = <<>>
          ELSE /\ mres' = MsgResult("downcast", T, FALSE, <<>>, mbox)
               /\ mbox' = mbox
    /\ UNCHANGED <<HttpVars, H2Vars>>

InitMsg ==
    /\ \E b \in MsgBoxes : mbox = <<b>>
    /\ mres = [op |-> "none", T |-> "none", arg |-> <<>>, ok |-> FALSE,
               val |-> <<>>, err |-> <<>>]
    /\ HttpIdle
    /\ H2Idle

NextMsg ==
    \/ HttpMessage_is_call
    \/ HttpMessage_downcast_ref
    \/ HttpMessage_downcast_mut
    \/ HttpMessage_downcast

SpecMsg == InitMsg /\ [][NextMsg]_vars

\* ------------------------------------------------------ the HTTP/2 adapter
Schemes == {"http", "https", "ftp"}

\* the stream ids that the session hands out
StreamIds == {1, 3, 5}

RawHeader(n, v) == [name |-> n, value |-> v]

StatusName == <<":","s","t","a","t","u","s">>

\* the raw responses that the session returns: header list and body. The
\* element "0xFF" stands for the byte 0xFF, which no UTF-8 string holds.
RawResponses ==
    { [headers |-> << RawHeader(StatusName, <<"2","0","0">>),
                      RawHeader(<<"x","-","a">>, <<"1">>) >>,
       body |-> <<"h","i">>],
      [headers |-> << RawHeader(StatusName, <<"4","0","4">>) >>,
       body |-> <<>>],
      [headers |-> << RawHeader(StatusName, <<"2","0","0">>),
                      RawHeader(<<"x","-","a">>, <<"1">>),
                      RawHeader(<<"b">>, <<"3">>),
                      RawHeader(<<"x","-","a">>, <<"2">>) >>,
       body |-> <<"h","i">>],
      [headers |-> << RawHeader(StatusName, <<"3","0","2">>),
                      RawHeader(<<"b">>, <<"3">>),
                      RawHeader(<<":","x">>, <<"1">>) >>,
       body |-> <<>>],
      [headers |-> << RawHeader(<<"x","-","a">>, <<"1">>) >>,
       body |-> <<>>],
      [headers |-> << RawHeader(StatusName, <<"2","0","0">>),
                      RawHeader(<<>>, <<"1">>) >>,
       body |-> <<>>],
      [headers |-> << RawHeader(StatusName, <<"2","0","0">>),
                      RawHeader(<<"x", "0xFF">>, <<"1">>) >>,
       body |-> <<>>],
      [headers |-> << RawHeader(StatusName, <<"2","0","0">>),
                      RawHeader(<<"x","-","a">>, <<"1">>),
                      RawHeader(<<"x","-","a">>, <<"2">>),
                      RawHeader(<<"x","-","a">>, <<"1">>) >>,
       body |-> <<>>],
      [headers |-> << RawHeader(StatusName, <<"2","0","0">>),
                      RawHeader(<<"X","-","a">>, <<"1">>),
                      RawHeader(<<"b">>, <<"3">>),
                      RawHeader(<<"x","-","a">>, <<"2">>) >>,
       body |-> <<>>] }

\* a new() whose https arm builds the TLS variant
Http2Client_variant_Https(scheme) ==
    CASE scheme = "http"  -> <<"Http">>
      [] scheme = "https" -> <<"Https">>
      [] OTHER            -> <<>>

\* Http2Client::new: the variant built for a scheme, None where it panics
Http2Client_variant(scheme) ==
    CASE scheme = "http"  -> <<"Http">>
      [] scheme = "https" -> <<>>
      [] OTHER            -> <<>>

\* Result::unwrap: the value of Ok, a panic on Err
Unwrap(isOk) == IF isOk THEN "Ok" ELSE "Panic"

\* Http2Client::new(scheme, hostname): new_http connects and unwraps the
\* client, new_https and every other scheme panic
Http2Client_new ==
    /\ h2phase = "NoClient"
    /\ \E scheme \in Schemes, connected \in BOOLEAN :
          LET v == Http2Client_variant(scheme)
          IN IF v # <<>> /\ Unwrap(connected) = "Ok"
             THEN /\ h2client' = v
                  /\ h2phase' = "Client"
                  /\ h2last' = [op |-> "new", arg |-> scheme,
                                outcome |-> "Ok", sessionErr |-> FALSE]
             ELSE /\ h2client' = <<>>
                  /\ h2phase' = "Panicked"
                  /\ h2last' = [op |-> "new", arg |-> scheme,
                                outcome |-> "Panic",
                                sessionErr |-> (v # <<>> /\ ~connected)]
    /\ UNCHANGED <<h2req, h2session, h2resp>>
    /\ UNCHANGED <<HttpVars, MsgVars>>

\* an Http2Request<Fresh> is built around the client: no stream id yet
Http2Request_fresh ==
    /\ h2phase = "Client"
    /\ \E m \in Methods, u \in Urls, withHost \in BOOLEAN :
          h2req' = << [method |-> m, url |-> u,
                       headers |-> IF withHost
                                   THEN HeadersSet(HeadersNew, "Host",
                                          [hostname |-> u.host,
                                           port |-> <<u.port>>])
                                   ELSE HeadersNew,
                       stream_id |-> <<>>] >>
    /\ h2phase' = "Fresh"
    /\ h2last' = [op |-> "fresh", arg |-> "", outcome |-> "Ok",
                  sessionErr |-> FALSE]
    /\ UNCHANGED <<h2client, h2session, h2resp>>
    /\ UNCHANGED <<HttpVars, MsgVars>>

\* a path without the query string
Http2Path_NoQuery(u) == u.path

\* Http2Request<Fresh>::start: the path handed to the session
Http2Path(u) ==
    IF u.query # <<>> THEN u.path \o <<"?">> \o u.query[1] ELSE u.path

\* Http2Request<Fresh>::start: client.request(method, path, &[]) and unwrap
Http2Request_start ==
    /\ h2phase = "Fresh"
    /\ LET r == h2req[1]
           call == [method |-> FmtMethod(r.method), path |-> Http2Path(r.url),
                    extras |-> <<>>]
       IN \E ok \in BOOLEAN :
             IF Unwrap(ok) = "Ok"
             THEN \E id \in StreamIds :
                     /\ h2session' = [h2session EXCEPT
                                        !.calls = Append(@, call),
                                        !.ids = Append(@, id)]
                     /\ h2req' = << [r EXCEPT !.stream_id = <<id>>] >>
                     /\ h2phase' = "Streaming"
                     /\ h2last' = [op |-> "start", arg |-> "",
                                   outcome |-> "Ok", sessionErr |-> ~ok]
             ELSE /\ h2session' = [h2session EXCEPT
                                     !.calls = Append(@, call)]
                  /\ h2req' = h2req
                  /\ h2phase' = "Panicked"
                  /\ h2last' = [op |-> "start", arg |-> "",
                                outcome |-> "Panic", sessionErr |-> ~ok]
    /\ UNCHANGED <<h2client, h2resp>>
    /\ UNCHANGED <<HttpVars, MsgVars>>

IsDigit(c) == c \in {"0","1","2","3","4","5","6","7","8","9"}

DigitValue(c) == (CHOOSE i \in 1..10 : HexDigit[i] = c) - 1

\* Response::status_code of the session's response: the three digits of
\* the :status header, which must come first; None when malformed
RawStatusCode(resp) ==
    IF resp.headers = <<>> THEN <<>>
    ELSE LET h == resp.headers[1]
         IN IF h.name # StatusName \/ Len(h.value) # 3
                \/ (\E i \in 1..Len(h.value) : ~IsDigit(h.value[i]))
            THEN <<>>
            ELSE << 100 * DigitValue(h.value[1]) + 10 * DigitValue(h.value[2])
                        + DigitValue(h.value[3]) >>

\* the lower-case form of a character of a header name
LowerChar(c) ==
    CASE c = "X" -> "x"
      [] c = "A" -> "a"
      [] c = "B" -> "b"
      [] OTHER   -> c

\* the lower-case form of a header name
LowerName(name) == [i \in 1..Len(name) |-> LowerChar(name[i])]

\* the keys of Headers are case-insensitive: do two names denote one key
SameName(a, b) == LowerName(a) = LowerName(b)

\* Headers::set_raw(name, values): replaces the values of the key of name,
\* or inserts name last
HeadersSetRaw(h, name, values) ==
    IF \E i \in 1..Len(h) : SameName(h[i].name, name)
    THEN [i \in 1..Len(h) |->
            IF SameName(h[i].name, name)
            THEN [name |-> h[i].name, values |-> values]
            ELSE h[i]]
    ELSE Append(h, [name |-> name, values |-> values])

\* a filter that keeps the pseudo-headers as well
KeepsHeader_All(header) == TRUE

\* Http2Response::new: is the raw header kept (not a pseudo-header)
KeepsHeader(header) == header.name[1] # ":"

RECURSIVE CollectHeaders_Coalesces(_, _)
\* a loop that coalesces the values of a repeated name into one vector
CollectHeaders_Coalesces(h, raw) ==
    IF raw = <<>> THEN h
    ELSE IF KeepsHeader(Head(raw))
         THEN LET name == Head(raw).name
                  old  == IF \E i \in 1..Len(h) : SameName(h[i].name, name)
                          THEN (CHOOSE e \in {h[i] : i \in 1..Len(h)} :
                                    SameName(e.name, name)).values
                          ELSE <<>>
              IN CollectHeaders_Coalesces(
                    HeadersSetRaw(h, name, Append(old, Head(raw).value)),
                    Tail(raw))
         ELSE CollectHeaders_Coalesces(h, Tail(raw))

RECURSIVE CollectHeaders(_, _)
\* Http2Response::new: the loop over the filtered raw headers
CollectHeaders(h, raw) ==
    IF raw = <<>> THEN h
    ELSE IF KeepsHeader(Head(raw))
         THEN CollectHeaders(
                 HeadersSetRaw(h, Head(raw).name, << Head(raw).value >>),
                 Tail(raw))
         ELSE CollectHeaders(h, Tail(raw))

\* String::from_utf8(name): is the name valid UTF-8
IsUtf8(name) == \A i \in 1..Len(name) : name[i] # "0xFF"

\* Http2Response::new: does the loop panic, on header.0[0] of an empty name
\* or on the unwrap of from_utf8 of a kept name
CollectPanics(raw) ==
    \E i \in 1..Len(raw) :
        \/ raw[i].name = <<>>
        \/ (raw[i].name # <<>> /\ KeepsHeader(raw[i]) /\ ~IsUtf8(raw[i].name))

\* Http2Response::new(client, stream_id): get_response and unwrap, the status
\* code and unwrap, then the headers and the body
Http2Response_new ==
    /\ h2phase = "Streaming"
    /\ \E ok \in BOOLEAN :
          IF Unwrap(ok) = "Ok"
          THEN \E resp \in RawResponses :
             /\ h2session' = [h2session EXCEPT !.responses = Append(@, resp)]
             /\ IF Unwrap(RawStatusCode(resp) # <<>>) = "Ok"
                      /\ ~CollectPanics(resp.headers)
                THEN /\ h2resp' =
                          << [stream_id |-> h2req[1].stream_id[1],
                              status |-> RawStatusCode(resp)[1],
                              headers |-> CollectHeaders(<<>>, resp.headers),
                              body |-> resp.body] >>
                     /\ h2phase' = "Response"
                     /\ h2last' = [op |-> "response", arg |-> "",
                                   outcome |-> "Ok", sessionErr |-> FALSE]
                ELSE /\ h2resp' = <<>>
                     /\ h2phase' = "Panicked"
                     /\ h2last' = [op |-> "response", arg |-> "",
                                   outcome |-> "Panic", sessionErr |-> FALSE]
          ELSE /\ h2session' = h2session
               /\ h2resp' = <<>>
               /\ h2phase' = "Panicked"
               /\ h2last' = [op |-> "response", arg |-> "",
                             outcome |-> "Panic", sessionErr |-> TRUE]
    /\ UNCHANGED <<h2client, h2req>>
    /\ UNCHANGED <<HttpVars, MsgVars>>

InitH2 ==
    /\ h2phase = "NoClient"
    /\ h2client = <<>>
    /\ h2req = <<>>
    /\ h2session = [calls |-> <<>>, ids |-> <<>>, responses |-> <<>>]
    /\ h2resp = <<>>
    /\ h2last = [op |-> "none", arg |-> "", outcome |-> "Ok",
                 sessionErr |-> FALSE]
    /\ HttpIdle
    /\ MsgIdle

NextH2 ==
    \/ Http2Client_new
    \/ Http2Request_fresh
    \/ Http2Request_start
    \/ Http2Response_new

SpecH2 == InitH2 /\ [][NextH2]_vars

\* ====================================================== HTTP/1.x claims
Started == phase \in {"Streaming", "Sent"}

\* the head of a started request, and the bytes that follow it
HeadBytes == RequestLine(method, url, version) \o HeaderBlock(headers)

BodyBytes == SubSeq(transport, Len(HeadBytes) + 1, Len(transport))

BlankLine == LINE_ENDING \o LINE_ENDING

ContentLengthField == FieldName("ContentLength") \o <<":">>

TransferEncodingField == FieldName("TransferEncoding") \o <<":">>

PayloadABC == <<"a","b","c">>

PayloadDE == <<"d","e">>

Payload26 ==
    <<"a","b","c","d","e","f","g","h","i","j","k","l","m",
      "n","o","p","q","r","s","t","u","v","w","x","y","z">>

\* C1 as stated: once a GET or HEAD request is started, the bytes on the
\* transport hold no Content-Length field and no Transfer-Encoding field,
\* whatever the caller put into the headers
C1_HeadNeverHasLengthFields ==
    (Started /\ NoBody(method)) =>
        /\ ~Contains(transport, ContentLengthField)
        /\ ~Contains(transport, TransferEncodingField)

\* C1 amended: a successful start() of a GET or HEAD request adds neither
\* field: the head holds a Content-Length (Transfer-Encoding) field exactly
\* when the headers held Content-Length (Transfer-Encoding) before start()
C1_HeadHasOnlyCallerLengthFields ==
    [][(IsFresh /\ phase' = "Streaming" /\ NoBody(method)) =>
        /\ Contains(transport', ContentLengthField)
              <=> HeadersHas(headers, "ContentLength")
        /\ Contains(transport', TransferEncodingField)
              <=> HeadersHas(headers, "TransferEncoding")]_vars

C1_Witness ==
    /\ phase = "Streaming" /\ NoBody(method)
    /\ ~HeadersHas(headers, "ContentLength")
    /\ ~HeadersHas(headers, "TransferEncoding")
    /\ ~Contains(transport, ContentLengthField)
    /\ ~Contains(transport, TransferEncodingField)

\* C2: a started GET or HEAD request has the Empty writer, every write() on
\* it returns an error, and through any writes and send() the transport
\* holds the head alone, ending at the first blank line
C2_EmptyWriterRejectsBody ==
    (Started /\ NoBody(method)) =>
        /\ body = EmptyWriter
        /\ (last.op = "write" => ~last.ok)
        /\ transport = HeadBytes
        /\ EndsWith(transport, BlankLine)
        /\ ~Contains(SubSeq(transport, 1, Len(transport) - 1), BlankLine)

C2_Witness ==
    /\ phase = "Sent" /\ NoBody(method)
    /\ written = <<PayloadABC, PayloadDE>>
    /\ EndsWith(transport, BlankLine)

\* C3: start() of a request that is neither GET nor HEAD and holds
\* Content-Length: N selects Sized(N) and leaves Transfer-Encoding as it was
C3_ContentLengthSelectsSized ==
    [][(IsFresh /\ phase' = "Streaming" /\ ~NoBody(method)
            /\ HeadersHas(headers, "ContentLength")) =>
        /\ body' = SizedWriter(headers.cl[1])
        /\ headers'.te = headers.te]_vars

C3_Witness ==
    /\ phase = "Streaming" /\ ~NoBody(method)
    /\ body = SizedWriter(5)
    /\ headers.te = << <<"gzip">> >>

\* C4: start() of a request that is neither GET nor HEAD and holds neither
\* Content-Length nor Transfer-Encoding sets Transfer-Encoding to [chunked],
\* writes that field in the head and selects the Chunked writer
C4_NoLengthSelectsChunked ==
    [][(IsFresh /\ phase' = "Streaming" /\ ~NoBody(method)
            /\ ~HeadersHas(headers, "ContentLength")
            /\ ~HeadersHas(headers, "TransferEncoding")) =>
        /\ headers'.te = << <<"chunked">> >>
        /\ Contains(transport',
                    LINE_ENDING \o TransferEncodingField
                        \o <<" ">> \o FmtEncoding("chunked") \o BlankLine)
        /\ body' = ChunkedWriter]_vars

C4_Witness ==
    /\ phase = "Streaming" /\ ~NoBody(method)
    /\ body = ChunkedWriter
    /\ headers.te = << <<"chunked">> >>
    /\ headers.order = <<"Host", "TransferEncoding">>

RECURSIVE ChunkFrames(_)
\* one frame <hex length> CRLF payload CRLF per payload, in order
ChunkFrames(ws) ==
    IF ws = <<>> THEN <<>>
    ELSE FmtHex(Len(Head(ws))) \o LINE_ENDING \o Head(ws) \o LINE_ENDING
            \o ChunkFrames(Tail(ws))

LastChunk == <<"0", "\r", "\n", "\r", "\n">>

\* C5: under the Chunked writer the bytes after the head are one frame per
\* write() in call order, and after send() those frames and 0 CRLF CRLF;
\* "abc" then "de" give 3 CRLF abc CRLF 2 CRLF de CRLF 0 CRLF CRLF, and a
\* 26-byte write gives the length 1A
C5_ChunkedFraming ==
    (Started /\ body = ChunkedWriter) =>
        /\ phase = "Streaming" => BodyBytes = ChunkFrames(written)
        /\ phase = "Sent" => BodyBytes = ChunkFrames(written) \o LastChunk
        /\ (phase = "Sent" /\ written = <<PayloadABC, PayloadDE>>) =>
              BodyBytes = <<"3","\r","\n","a","b","c","\r","\n",
                            "2","\r","\n","d","e","\r","\n",
                            "0","\r","\n","\r","\n">>
        /\ (phase = "Sent" /\ written = <<Payload26>>) =>
              BodyBytes = <<"1","A","\r","\n">> \o Payload26
                            \o <<"\r","\n","0","\r","\n","\r","\n">>

C5_Witness ==
    /\ phase = "Sent" /\ body = ChunkedWriter
    /\ written = <<PayloadABC, PayloadDE>>
    /\ EndsWith(transport, <<"e","\r","\n","0","\r","\n","\r","\n">>)

IsHexDigit(c) == \E i \in 1..16 : HexDigit[i] = c

HexValue(c) == (CHOOSE i \in 1..16 : HexDigit[i] = c) - 1

RECURSIVE ParseHex(_, _)
\* the value of the hex digits that s starts with, and the rest of s
ParseHex(s, acc) ==
    IF s # <<>> /\ IsHexDigit(Head(s))
    THEN ParseHex(Tail(s), acc * 16 + HexValue(Head(s)))
    ELSE [n |-> acc, rest |-> s]

StartsWith(s, pre) == Len(s) >= Len(pre) /\ SubSeq(s, 1, Len(pre)) = pre

DecodeFailed == [ok |-> FALSE, data |-> <<>>]

RECURSIVE DecodeChunked(_)
\* a receiver's decoding of a chunked body: chunks up to the first chunk of
\* size 0, which ends the body
DecodeChunked(s) ==
    IF s = <<>> \/ ~IsHexDigit(Head(s)) THEN DecodeFailed
    ELSE LET sz == ParseHex(s, 0)
         IN IF ~StartsWith(sz.rest, LINE_ENDING) THEN DecodeFailed
            ELSE LET r == SubSeq(sz.rest, 3, Len(sz.rest))
                 IN IF sz.n = 0
                    THEN [ok |-> StartsWith(r, LINE_ENDING), data |-> <<>>]
                    ELSE IF Len(r) < sz.n + 2
                            \/ SubSeq(r, sz.n + 1, sz.n + 2) # LINE_ENDING
                    THEN DecodeFailed
                    ELSE LET d == DecodeChunked(SubSeq(r, sz.n + 3, Len(r)))
                         IN [ok |-> d.ok,
                             data |-> SubSeq(r, 1, sz.n) \o d.data]

\* C6: the bytes that the Chunked writer and send() put after the head
\* decode, as a chunked body, to the concatenation of the written payloads,
\* zero-length writes included
C6_ChunkedRoundTrip ==
    (phase = "Sent" /\ body = ChunkedWriter) =>
        /\ DecodeChunked(BodyBytes).ok
        /\ DecodeChunked(BodyBytes).data = Concat(written)

\* C7: start() and send() are each called at most once, writes and send()
\* come after start(), nothing is written after send(), and the headers
\* change only while the request is Fresh
C7_TypestateOrdering ==
    /\ [](/\ calls.start <= 1
          /\ calls.send <= 1
          /\ (written # <<>> \/ calls.send = 1) => calls.start = 1
          /\ (phase = "Fresh") <=> (calls.start = 0)
          /\ (phase = "Sent") <=> (calls.send = 1))
    /\ [][/\ ~IsFresh => headers' = headers
          /\ calls.send = 1 => (written' = written /\ transport' = transport)
          /\ written' # written => phase = "Streaming"
          /\ calls'.send # calls.send => phase = "Streaming"]_vars

C7_Witness ==
    /\ phase = "Sent"
    /\ calls = [start |-> 1, send |-> 1]
    /\ Len(written) = 2

IsStrictPrefix(s, t) == Len(s) < Len(t) /\ SubSeq(t, 1, Len(s)) = s

\* C10: once a write of the head has failed, start() has returned the
\* error with the head cut short at the failing write, the request is not
\* Streaming, the Through writer was never replaced, and no body write or
\* send() happens
C10_HeadFailureAbortsStart ==
    ioerr =>
        /\ phase = "Failed"
        /\ last = [op |-> "start", ok |-> FALSE]
        /\ body = ThroughWriter
        /\ written = <<>>
        /\ calls.send = 0
        /\ IsStrictPrefix(transport, HeadBytes)
        /\ ~ENABLED Request_write
        /\ ~ENABLED Request_send

C10_Witness ==
    /\ ioerr
    /\ phase = "Failed"
    /\ Len(transport) > Len(RequestLine(method, url, version))

\* =================================================== HttpMessage claims
\* C8: is::<T>() is true exactly for the concrete type of the box;
\* downcast::<X>() to the concrete type returns Ok with the value of the
\* object and consumes the box; for any other type downcast_ref and
\* downcast_mut return None and leave the box as it was, and downcast
\* returns Err with the box it was called on
C8_DowncastIdentity ==
    mres.op # "none" =>
        LET b == mres.arg[1]
        IN /\ mres.op = "is" => (mres.ok <=> mres.T = b.type)
           /\ (mres.op = "downcast" /\ mres.T = b.type) =>
                 /\ mres.ok
                 /\ mres.val = <<b.data>>
                 /\ mres.err = <<>>
                 /\ mbox = <<>>
           /\ (mres.op = "downcast" /\ mres.T # b.type) =>
                 /\ ~mres.ok
                 /\ mres.val = <<>>
                 /\ mres.err = <<b>>
                 /\ mbox = <<b>>
           /\ (mres.op \in {"downcast_ref", "downcast_mut"}
                  /\ mres.T # b.type) =>
                 /\ ~mres.ok
                 /\ mres.val = <<>>
                 /\ mbox = <<b>>

C8_Witness ==
    /\ mres.op = "downcast"
    /\ mres.arg = << [type |-> "Http2Message", data |-> 2] >>
    /\ mres.T = "Http11Message"
    /\ mres.err = mres.arg

\* ======================================================== HTTP/2 claims
\* C9: when the session returns an error to client.request() in start()
\* or to client.get_response() in Http2Response::new, the operation ends
\* with an error result and not with a panic
C9_SessionErrorIsReturned ==
    (h2last.op \in {"start", "response"} /\ h2last.sessionErr) =>
        /\ h2last.outcome = "Err"
        /\ h2phase # "Panicked"

RECURSIVE ParseDecimal(_, _)
\* the number that a string of decimal digits denotes
ParseDecimal(s, acc) ==
    IF s = <<>> THEN acc
    ELSE ParseDecimal(Tail(s), 10 * acc + DigitValue(Head(s)))

\* the raw response that the session returned last
LastRawResponse == h2session.responses[Len(h2session.responses)]

\* C11: in the response that Http2Response::new builds, no header name
\* begins with ':', every raw header name that does not begin with ':' is
\* present, every raw name that does is absent, and the status is the
\* number that the :status pseudo-header spells (404 for "404")
C11_ResponseDropsPseudoHeaders ==
    h2phase = "Response" =>
        LET raw == LastRawResponse.headers
            hs  == h2resp[1].headers
            Present(n) == \E j \in 1..Len(hs) : SameName(hs[j].name, n)
        IN /\ \A i \in 1..Len(raw) :
                 Present(raw[i].name) <=> (raw[i].name[1] # ":")
           /\ \A j \in 1..Len(hs) : hs[j].name[1] # ":"
           /\ \E i \in 1..Len(raw) :
                 /\ raw[i].name = StatusName
                 /\ h2resp[1].status = ParseDecimal(raw[i].value, 0)
           /\ raw[1].value = <<"4","0","4">> => h2resp[1].status = 404

C11_Witness ==
    /\ h2phase = "Response"
    /\ \E i \in 1..Len(LastRawResponse.headers) :
          LastRawResponse.headers[i].name = <<":", "x">>
    /\ h2resp[1].status = 302
    /\ Len(h2resp[1].headers) = 1
    /\ h2resp[1].headers[1].name = <<"b">>

\* ================================================ HTTP/1.x claims, second part
GetRootLine ==
    <<"G","E","T"," ","/"," ","H","T","T","P","/","1",".","1","\r","\n">>

HostExampleDom ==
    <<"H","o","s","t",":"," ","e","x","a","m","p","l","e",".","d","o","m",
      "\r","\n">>

\* C12: a GET for http://example.dom/ that is started with the headers of
\* its construction and sent has put on the transport the request line
\* GET / HTTP/1.1 CRLF, the header Host: example.dom, the blank line that
\* ends the head, and nothing after it, whatever writes were attempted
C12_GetRootScenario ==
    (/\ phase = "Sent" /\ method = "Get"
     /\ url.path = <<"/">> /\ url.query = <<>>
     /\ ~HeadersHas(headers, "ContentLength")
     /\ ~HeadersHas(headers, "TransferEncoding")) =>
        /\ StartsWith(transport, GetRootLine)
        /\ Contains(transport, LINE_ENDING \o HostExampleDom)
        /\ EndsWith(transport, BlankLine)
        /\ transport = GetRootLine \o HostExampleDom \o LINE_ENDING

C12_Witness ==
    /\ phase = "Sent" /\ method = "Get"
    /\ url.path = <<"/">> /\ url.query = <<>>
    /\ headers.order = <<"Host">>
    /\ written = <<PayloadABC>>
    /\ Len(transport) = Len(GetRootLine) + Len(HostExampleDom) + 2

RECURSIVE FramedWrites(_, _)
\* what the writer w puts on the transport for the payloads ws, in order
FramedWrites(w, ws) ==
    IF ws = <<>> THEN <<>>
    ELSE HttpWriter_write(w, Head(ws)).bytes \o FramedWrites(w, Tail(ws))

\* C13: nothing is on the transport before start(); from then on it holds
\* the request line, then the header block with its blank line, then the
\* bytes of the writes in call order, then (after send()) the terminator;
\* every step only appends to what is already there
C13_ProgramOrder ==
    /\ [](/\ phase = "Fresh" => transport = <<>>
          /\ Started =>
                /\ StartsWith(transport, RequestLine(method, url, version))
                /\ transport =
                      RequestLine(method, url, version)
                         \o HeaderBlock(headers)
                         \o FramedWrites(body, written)
                         \o (IF phase = "Sent" THEN HttpWriter_end(body)
                             ELSE <<>>))
    /\ [][StartsWith(transport', transport)]_vars

C13_Witness ==
    /\ phase = "Sent" /\ body = ChunkedWriter
    /\ written = <<PayloadDE, PayloadABC>>
    /\ EndsWith(transport,
                <<"2","\r","\n","d","e","\r","\n",
                  "3","\r","\n","a","b","c","\r","\n",
                  "0","\r","\n","\r","\n">>)

\* C14: a started request has one of the writers Empty, Sized(n), Chunked
\* and never Through; start() picks it from the method and the headers it
\* is called with (GET or HEAD: Empty; else Content-Length: n present:
\* Sized(n); else Chunked); no later operation changes the variant
C14_WriterChosenOnce ==
    /\ [](Started =>
            body.kind \in {"EmptyWriter", "SizedWriter", "ChunkedWriter"})
    /\ [][(IsFresh /\ phase' = "Streaming") =>
            body' = IF method \in {"Get", "Head"}
                    THEN [kind |-> "EmptyWriter", len |-> 0]
                    ELSE IF headers.cl # <<>>
                    THEN [kind |-> "SizedWriter", len |-> headers.cl[1]]
                    ELSE [kind |-> "ChunkedWriter", len |-> 0]]_vars
    /\ [][Started => body'.kind = body.kind]_vars

C14_Witness ==
    /\ phase = "Sent"
    /\ body.kind = "SizedWriter" /\ body.len = 3
    /\ Len(written) = 3
    /\ last.op = "send"

\* C15: start() of a request that is neither GET nor HEAD, holds no
\* Content-Length and holds Transfer-Encoding: L leaves Transfer-Encoding
\* equal to L with one chunked appended, also when L holds chunked already,
\* and selects the Chunked writer
C15_ChunkedAppendedToList ==
    [][(IsFresh /\ phase' = "Streaming" /\ ~NoBody(method)
            /\ ~HeadersHas(headers, "ContentLength")
            /\ HeadersHas(headers, "TransferEncoding")) =>
        /\ headers'.te = << headers.te[1] \o <<"chunked">> >>
        /\ headers'.order = headers.order
        /\ body' = ChunkedWriter]_vars

C15_Witness ==
    /\ phase = "Streaming" /\ ~NoBody(method)
    /\ body = ChunkedWriter
    /\ headers.te = << <<"chunked", "chunked">> >>
    /\ Contains(transport,
                TransferEncodingField \o <<" ">> \o FmtEncoding("chunked")
                    \o <<",", " ">> \o FmtEncoding("chunked") \o LINE_ENDING)

\* C16: under Sized(n) the bytes after the head are the written payloads
\* concatenated in call order, whether they add up to less than n, to n or
\* to more; send() adds no byte under Sized and none under Empty
C16_SizedPassesThrough ==
    /\ []((Started /\ body.kind = "SizedWriter") =>
            BodyBytes = Concat(written))
    /\ []((Started /\ body.kind = "EmptyWriter") => BodyBytes = <<>>)
    /\ [][(IsStreaming /\ phase' = "Sent"
             /\ body.kind \in {"SizedWriter", "EmptyWriter"}) =>
            transport' = transport]_vars

C16_Witness ==
    /\ phase = "Sent"
    /\ body = SizedWriter(3)
    /\ written = <<PayloadABC, PayloadDE>>
    /\ BodyBytes = <<"a","b","c","d","e">>

\* C20: a start() that returns leaves method, url and version as they
\* were; of the headers it changes nothing but Transfer-Encoding, and that
\* only when it selects the Chunked writer: for GET and HEAD and for a
\* request with Content-Length the headers are what they were before
C20_StartFrame ==
    [][(IsFresh /\ phase' = "Streaming") =>
        /\ method' = method /\ url' = url /\ version' = version
        /\ headers'.host = headers.host
        /\ headers'.cl = headers.cl
        /\ \/ headers'.order = headers.order
           \/ /\ ~HeadersHas(headers, "TransferEncoding")
              /\ headers'.order = Append(headers.order, "TransferEncoding")
        /\ headers' # headers => body'.kind = "ChunkedWriter"
        /\ method \in {"Get", "Head"} => headers' = headers
        /\ HeadersHas(headers, "ContentLength") => headers' = headers]_vars

C20_Witness ==
    /\ phase = "Streaming" /\ method = "Get"
    /\ body = EmptyWriter
    /\ headers.cl = <<3>>
    /\ headers.order = <<"Host", "ContentLength">>
    /\ Contains(transport, ContentLengthField \o <<" ", "3">> \o LINE_ENDING)

\* ================================================ HTTP/2 claims, second part
SubmitWithQuery ==
    <<"/","s","u","b","m","i","t","?","q","=","1">>

\* C17: a start() of an Http2Request that returns makes one more request
\* call on the session, with the text of the method, the path with its
\* query string and no extra headers, and the Streaming request holds the
\* stream id that this call returned and the client, headers, method and
\* url of the Fresh request
C17_Http2StartIssuesOneRequest ==
    [][(h2phase = "Fresh" /\ h2phase' = "Streaming") =>
        LET r == h2req[1]
            n == Len(h2session.calls)
            c == h2session'.calls[n + 1]
        IN /\ Len(h2session'.calls) = n + 1
           /\ SubSeq(h2session'.calls, 1, n) = h2session.calls
           /\ Len(h2session'.ids) = Len(h2session.ids) + 1
           /\ c.method = FmtMethod(r.method)
           /\ r.method = "Post" => c.method = <<"P","O","S","T">>
           /\ c.path = r.url.path
                  \o (IF r.url.query = <<>> THEN <<>>
                      ELSE <<"?">> \o r.url.query[1])
           /\ r.url.query = << <<"q","=","1">> >> => c.path = SubmitWithQuery
           /\ c.extras = <<>>
           /\ h2req' = << [method |-> r.method, url |-> r.url,
                           headers |-> r.headers,
                           stream_id |->
                              << h2session'.ids[Len(h2session'.ids)] >>] >>
           /\ h2client' = h2client]_vars

C17_Witness ==
    /\ h2phase = "Streaming"
    /\ h2req[1].stream_id = <<3>>
    /\ h2session.ids = <<3>>
    /\ HeadersHas(h2req[1].headers, "Host")
    /\ Len(h2session.calls) = 1
    /\ h2session.calls[1].path = SubmitWithQuery
    /\ h2session.calls[1].extras = <<>>

C19_SameRequestTarget ==
    h2phase = "Streaming" =>
        LET r == h2req[1]
            c == h2session.calls[Len(h2session.calls)]
        IN /\ c.path = RequestUri(r.url)
           /\ RequestLine(r.method, r.url, "Http11") =
                 FmtMethod(r.method) \o <<" ">> \o c.path \o <<" ">>
                    \o FmtVersion("Http11") \o LINE_ENDING
           /\ r.url.query = <<>> => c.path = r.url.path
           /\ r.url.query # <<>> =>
                 c.path = r.url.path \o <<"?">> \o r.url.query[1]
           /\ r.url.query = << <<>> >> => c.path = r.url.path \o <<"?">>

C19_Witness ==
    /\ h2phase = "Streaming"
    /\ h2req[1].url.query = << <<>> >>
    /\ h2session.calls[1].path = <<"/", "?">>

\* C21: when the raw header list holds a non-pseudo header name several
\* times, the Headers collection that Http2Response::new builds holds for
\* that name exactly one entry, whose value vector has the one element
\* that is the value of the last occurrence; the earlier values are gone,
\* and the collection holds as many names as the raw list holds distinct
\* non-pseudo names (names compared as the collection compares its keys)
C21_LastOccurrenceWins ==
    h2phase = "Response" =>
        LET raw == LastRawResponse.headers
            hs  == h2resp[1].headers
            NonPseudo == {i \in 1..Len(raw) : raw[i].name[1] # ":"}
            Occ(n) == {i \in NonPseudo : SameName(raw[i].name, n)}
            LastOcc(n) == CHOOSE i \in Occ(n) : \A j \in Occ(n) : j <= i
            Entries(n) == {k \in 1..Len(hs) : SameName(hs[k].name, n)}
        IN /\ \A i \in NonPseudo :
                 /\ Cardinality(Entries(raw[i].name)) = 1
                 /\ \A k \in Entries(raw[i].name) :
                       /\ Len(hs[k].values) = 1
                       /\ hs[k].values[1] = raw[LastOcc(raw[i].name)].value
                       /\ \A j \in Occ(raw[i].name) :
                             raw[j].value # raw[LastOcc(raw[i].name)].value
                                => \A v \in 1..Len(hs[k].values) :
                                      hs[k].values[v] # raw[j].value
           /\ Len(hs) = Cardinality({LowerName(raw[i].name) : i \in NonPseudo})

C21_Witness ==
    /\ h2phase = "Response"
    /\ Len(LastRawResponse.headers) = 4
    /\ LastRawResponse.headers[2] = RawHeader(<<"x","-","a">>, <<"1">>)
    /\ LastRawResponse.headers[4] = RawHeader(<<"x","-","a">>, <<"2">>)
    /\ h2resp[1].headers =
          << [name |-> <<"x","-","a">>, values |-> << <<"2">> >>],
             [name |-> <<"b">>, values |-> << <<"3">> >>] >>

====
